---- MODULE Spec2Model ----
(***************************************************************************)
(* Runit: decorator metadata (Fact / Theory / InlineData / Order) and the  *)
(* TestRunner (addClass, run, runTestClass, runTestCase, generateOutput).  *)
(* Timing values (os.clock differences) are left out of the results: no    *)
(* property below reads them.  The data rows are one metadata key, named   *)
(* Meta.Data by the decorators and Meta.TestData by the runner.            *)
(* Spec decorates two classes and runs them; SpecSuite runs three classes  *)
(* that are already defined, loaded through roots and addClass; SpecOptions *)
(* runs one class with the options run() accepts.                          *)
(* SpecReport runs a class with a Theory of two rows and a Fact and        *)
(* renders its report; SpecReentrant calls run() a second time while the   *)
(* first call awaits a case; SpecFunctions applies formatTime and the      *)
(* functions inRange and appendFailedMessage of src/assert.ts.             *)
(***************************************************************************)
EXTENDS Integers, Sequences, FiniteSets, TLC

\* ---------------------------------------------------------------- bounds
MaxDecorations == 2   \* tags, data rows and orders held by the metadata store
MaxRuns == 2          \* calls of run()

\* ------------------------------------------------------------- universes
Classes == {"A", "B"}
Methods == {"m1", "m2"}
NoProp == "<class>"               \* Reflect's slot for metadata without a property
Slots == Methods \cup {NoProp}
Rows == {<<1>>, <<2>>}            \* argument lists given to InlineData
Orders == {1, 2}                  \* values given to Order
Huge == 1000                      \* math.huge, the order of a class without Order
\* What a failing test body throws: error("boom") in m1, a number in m2.
Thrown == [m1 |-> [type |-> "string", text |-> "boom", num |-> 0],
           m2 |-> [type |-> "number", text |-> "", num |-> 42]]
\* The classes that define a destroy() method.
WithDestroy == {"A"}

VARIABLES
  metadata,      \* Reflect store: class -> slot -> [fact, theory, data, order]
  properties,    \* Reflect.getProperties(class): its slots with metadata, in table order
  lastCall,      \* the decorator application that raised last, NoCall after a success
  testClasses,   \* TestRunner.testClasses
  results,       \* TestRunner.results
  passedTests,   \* TestRunner.passedTests
  failedTests,   \* TestRunner.failedTests
  pc,            \* "idle" | "awaiting" (a test case is in flight) | "done" | "rejected"
  pos,           \* position of run()/runTestClass(): class index, name queues, row index
  rejection,     \* the value run() rejected with, <<>> when none
  reports,       \* texts handed to the reporter by the current run
  runs,          \* number of run() calls so far
  invocations,   \* test cases invoked by the current run, in order
  prevReports,   \* what the run before the current one gave the reporter
  added,         \* a class was added since the last call of run()
  sameClasses,   \* the current run started with the classes of the run before it
  discovered,    \* the classes given to the runner (roots, addClass), in that order
  constructed,   \* class -> number of "new TestClass" evaluated
  instanceOf,    \* class -> the instance held with it in testClasses, 0 when none
  receivers,     \* the instance each test case of the current run was called on
  options,       \* run()'s { reporter, colors } after line 75
  reporterCalls, \* the reporters called by the current run, in order
  destroyCalls,  \* class -> calls of its instance's destroy() made by the runner
  roots,         \* the constructor's arguments: per root, the classes its modules export
  rendered,      \* the tree and failure section of the texts in reports
  second,        \* a call of run() made while the call above is awaiting a test case
  subject,       \* a call of formatTime or of an Assert function, NoSubject when none
  outcome        \* what the call in subject returned or raised

vars == <<metadata, properties, lastCall, testClasses, results,
          passedTests, failedTests, pc, pos, rejection, reports, runs,
          invocations, prevReports, added, sameClasses, discovered,
          constructed, instanceOf, receivers, options, reporterCalls,
          destroyCalls, roots, rendered, second, subject, outcome>>

regVars == <<metadata, properties, lastCall>>
loadVars == <<testClasses, added, discovered, constructed, instanceOf, roots>>
runVars == <<results, passedTests, failedTests, pc, pos, rejection, reports,
             runs, invocations, prevReports, sameClasses, receivers, options,
             reporterCalls, destroyCalls, rendered, second, subject, outcome>>

\* ------------------------------------------------------------- Reflect
NoMeta == [fact |-> FALSE, theory |-> FALSE, data |-> <<>>, order |-> 0]

\* Reflect.hasMetadata(obj, key, property?): a missing property is the class slot.
hasMetadata(store, c, key, slot) ==
  CASE key = "fact" -> store[c][slot].fact
    [] key = "theory" -> store[c][slot].theory
    [] key = "data" -> store[c][slot].data # <<>>
    [] key = "order" -> store[c][slot].order # 0

\* Reflect.defineMetadata also makes the property one of getProperties(obj);
\* the place of a new key in the table's iteration order is not specified.
InsertAt(s, i, x) == SubSeq(s, 1, i - 1) \o <<x>> \o SubSeq(s, i, Len(s))

InSeq(s, x) == \E i \in 1..Len(s) : s[i] = x

Range(s) == {s[i] : i \in 1..Len(s)}

RECURSIVE SumSeq(_)
SumSeq(s) == IF s = <<>> THEN 0 ELSE Head(s) + SumSeq(Tail(s))

RECURSIVE Flatten(_)
Flatten(ss) == IF ss = <<>> THEN <<>> ELSE Head(ss) \o Flatten(Tail(ss))

Reverse(s) == [i \in 1..Len(s) |-> s[Len(s) + 1 - i]]

PropertiesAfterDefine(c, m) ==
  IF InSeq(properties[c], m)
    THEN {properties}
    ELSE {[properties EXCEPT ![c] = InsertAt(@, i, m)] : i \in 1..(Len(properties[c]) + 1)}

NoCall == [op |-> "none", cls |-> "", method |-> "", error |-> ""]

Loaded(c) == InSeq(testClasses, c)

\* A class is decorated while it is defined, before it is given to the runner.
\* Definitions are evaluated before the first run(): a later one would change
\* nothing a run reads, the metadata of a loaded class being final.
CanDecorate(c) == ~Loaded(c) /\ runs = 0

RECURSIVE SumOver(_, _)
SumOver(f, S) ==
  IF S = {} THEN 0 ELSE LET x == CHOOSE y \in S : TRUE IN f[x] + SumOver(f, S \ {x})

SlotSize(r) ==
  (IF r.fact THEN 1 ELSE 0) + (IF r.theory THEN 1 ELSE 0) + Len(r.data)
    + (IF r.order # 0 THEN 1 ELSE 0)

MetaSize(store) ==
  SumOver([c \in Classes |-> SumOver([s \in Slots |-> SlotSize(store[c][s])], Slots)], Classes)

Raise(op, c, m, err) ==
  /\ lastCall' = [op |-> op, cls |-> c, method |-> m, error |-> err]
  /\ UNCHANGED <<metadata, properties>>

Done(op, c, m) ==
  /\ MetaSize(metadata') <= MaxDecorations
  /\ lastCall' = NoCall

\* ----------------------------------------------------------- decorators
FactChecksData(c, m) == hasMetadata(metadata, c, "data", NoProp)
FactChecksTheory(c, m) == hasMetadata(metadata, c, "theory", NoProp)

Fact(c, m) ==
  /\ CanDecorate(c)
  /\ IF FactChecksData(c, m) THEN Raise("Fact", c, m, "UnexpectedData")
     ELSE IF FactChecksTheory(c, m) THEN Raise("Fact", c, m, "NotBoth")
     ELSE /\ metadata' = [metadata EXCEPT ![c][m].fact = TRUE]
          /\ properties' \in PropertiesAfterDefine(c, m)
          /\ Done("Fact", c, m)
  /\ UNCHANGED <<loadVars, runVars>>

TheoryChecksFact(c, m) == hasMetadata(metadata, c, "fact", NoProp)

Theory(c, m) ==
  /\ CanDecorate(c)
  /\ IF TheoryChecksFact(c, m) THEN Raise("Theory", c, m, "NotBoth")
     ELSE /\ metadata' = [metadata EXCEPT ![c][m].theory = TRUE]
          /\ properties' \in PropertiesAfterDefine(c, m)
          /\ Done("Theory", c, m)
  /\ UNCHANGED <<loadVars, runVars>>

InlineDataChecksClass(c, m) == hasMetadata(metadata, c, "fact", NoProp)

InlineDataChecksFact(c, m) == hasMetadata(metadata, c, "fact", m)

InlineData(c, m, args) ==
  /\ CanDecorate(c)
  /\ IF InlineDataChecksFact(c, m) THEN Raise("InlineData", c, m, "UnexpectedData")
     ELSE /\ metadata' = [metadata EXCEPT ![c][m].data = Append(@, args)]
          /\ properties' \in PropertiesAfterDefine(c, m)
          /\ Done("InlineData", c, m)
  /\ UNCHANGED <<loadVars, runVars>>

Order(c, n) ==
  /\ CanDecorate(c)
  /\ metadata' = [metadata EXCEPT ![c][NoProp].order = n]
  /\ UNCHANGED properties
  /\ Done("Order", c, NoProp)
  /\ UNCHANGED <<loadVars, runVars>>

\* ------------------------------------------------------------- the runner
NoResults == [c \in DOMAIN metadata |-> [m \in Methods |-> <<>>]]
NoPos == [ci |-> 0, facts |-> <<>>, theories |-> <<>>, row |-> 0]
NoSecond == [pc |-> "idle", pos |-> NoPos, invocations |-> <<>>, reports |-> <<>>]
NoSubject == [op |-> "none"]
NoOutcome == [kind |-> "none"]

\* tostring(exception)
tostringType(e) == e.type

tostring(e) == IF e.type = "string" THEN e.text ELSE ToString(e.num)

\* The comparator given to testClasses.sort.
orderOrZero(c) == IF hasMetadata(metadata, c, "order", NoProp) THEN metadata[c][NoProp].order ELSE 0

orderOf(c) == IF hasMetadata(metadata, c, "order", NoProp) THEN metadata[c][NoProp].order ELSE Huge
sortLess(a, b) == orderOf(a) < orderOf(b)

Swap(s, i, j) == [s EXCEPT ![i] = s[j], ![j] = s[i]]

\* Array.sort is table.sort: for up to three elements it orders a[l], a[m], a[u]
\* by at most three comparisons and swaps; longer arrays are not loaded here.
SortFirstLast(s) == IF sortLess(s[Len(s)], s[1]) THEN Swap(s, 1, Len(s)) ELSE s

SortMiddle(s) ==
  IF sortLess(s[2], s[1]) THEN Swap(s, 2, 1)
  ELSE IF sortLess(s[3], s[2]) THEN Swap(s, 2, 3)
  ELSE s

sort(s) ==
  IF Len(s) < 2 THEN s
  ELSE IF Len(s) = 2 THEN SortFirstLast(s)
  ELSE SortMiddle(SortFirstLast(s))

\* runTestClass, lines 85-93: the names of the Facts and of the Theories.
IsTheoryOrData(c, p) ==
  ~hasMetadata(metadata, c, "fact", p)
    /\ (hasMetadata(metadata, c, "theory", p) \/ hasMetadata(metadata, c, "data", p))

IsFactName(c, p) == hasMetadata(metadata, c, "fact", p)
IsTheoryName(c, p) == ~hasMetadata(metadata, c, "fact", p) /\ hasMetadata(metadata, c, "theory", p)

factNames(c) == SelectSeq(properties[c], LAMBDA p : IsFactName(c, p))
theoryNames(c) == SelectSeq(properties[c], LAMBDA p : IsTheoryName(c, p))

EnterClass(tc, i) ==
  [ci |-> i, facts |-> factNames(tc[i]), theories |-> theoryNames(tc[i]), row |-> 0]

testData(c, m) == metadata[c][m].data

\* From a loop head of run()/runTestClass() to the next await of a test case,
\* to the throw of line 135, or to the end of the class loop.
RECURSIVE Seek(_, _)
Seek(tc, p) ==
  IF p.ci = 0 THEN [pc |-> "done", pos |-> NoPos, rejection |-> <<>>]
  ELSE IF p.facts # <<>> THEN [pc |-> "awaiting", pos |-> p, rejection |-> <<>>]
  ELSE IF p.theories # <<>> THEN
    IF testData(tc[p.ci], Head(p.theories)) = <<>>
      THEN [pc |-> "rejected", pos |-> NoPos, rejection |-> <<Head(p.theories)>>]
      ELSE [pc |-> "awaiting",
            pos |-> [p EXCEPT !.row = Len(testData(tc[p.ci], Head(p.theories)))],
            rejection |-> <<>>]
  ELSE IF p.ci < Len(tc) THEN Seek(tc, EnterClass(tc, p.ci + 1))
  ELSE [pc |-> "done", pos |-> NoPos, rejection |-> <<>>]

Start(tc) == IF tc = <<>> THEN Seek(tc, NoPos) ELSE Seek(tc, EnterClass(tc, 1))

\* After a test case: the next Fact, the next row, the next Theory.
Continue(tc, p) ==
  IF p.facts # <<>> THEN Seek(tc, [p EXCEPT !.facts = Tail(@)])
  ELSE IF p.row > 1 THEN [pc |-> "awaiting", pos |-> [p EXCEPT !.row = @ - 1], rejection |-> <<>>]
  ELSE Seek(tc, [p EXCEPT !.theories = Tail(@), !.row = 0])

\* Lines 129 and 140, "if (!await runTestCase(...)) continue;": the loop goes on
\* whatever runTestCase returned.
AfterBreak(tc, p, ok) ==
  IF ok THEN Continue(tc, p)
  ELSE IF p.facts # <<>> THEN Seek(tc, [p EXCEPT !.facts = <<>>])
  ELSE Seek(tc, [p EXCEPT !.theories = Tail(@), !.row = 0])

AfterCase(tc, p, ok) == Continue(tc, p)

\* The test case awaited at position p: class, method name, args (none for a Fact).
CaseAt(tc, p) ==
  IF p.facts # <<>>
    THEN [cls |-> tc[p.ci], name |-> Head(p.facts), inputs |-> <<>>]
    ELSE [cls |-> tc[p.ci], name |-> Head(p.theories),
          inputs |-> <<testData(tc[p.ci], Head(p.theories))[p.row]>>]

\* tostring(TestClass), line 161: the name of the class; classes defined in
\* different modules may bear the same name.
nameOf(c) == "Tests"

\* Line 96: the results of a class are kept under the class itself.
ResultKeyByName(c) == CHOOSE d \in DOMAIN metadata : nameOf(d) = nameOf(c)

ResultKey(c) == c

addResult(res, c, name, result) == [res EXCEPT ![ResultKey(c)][name] = Append(@, result)]

PassCount(passed) == passed + 1
FailCount(failed) == failed + 1

\* Lines 24-26 and 150-152; the fail glyph is the multiplication sign.
GREEN == "<green>"
RED == "<red>"
RESET == "<reset>"

getSymbol(passed, colors) ==
  IF colors THEN (IF passed THEN GREEN \o "+" \o RESET ELSE RED \o "x" \o RESET)
  ELSE (IF passed THEN "+" ELSE "x")

casesPassed(cases) == \A i \in 1..Len(cases) : cases[i].errorMessage = <<>>

\* Lines 156-157: every case of every method of the class passed.
somePassed(testResultRecord) ==
  \E m \in DOMAIN testResultRecord :
    testResultRecord[m] # <<>> /\ casesPassed(testResultRecord[m])

allPassed(testResultRecord) ==
  \A m \in DOMAIN testResultRecord : casesPassed(testResultRecord[m])

\* A class is a key of this.results once a result was added for it (line 96).
HasResults(res, c) == \E m \in DOMAIN res[c] : res[c][m] # <<>>

\* Line 161: the glyph of the class's line, "" for a class without a line.
classLine(res, c, colors) ==
  IF HasResults(res, c) THEN getSymbol(allPassed(res[c]), colors) ELSE ""

\* generateOutput: what the report shows of the results (per class and method,
\* each case's inputs and error message), the class lines (line 161), the
\* Failures header (lines 197-200) and the summary figures (lines 221-225).
generateOutput(res, passed, failed, colors) ==
  [tree |-> res,
   classLines |-> [c \in DOMAIN res |-> classLine(res, c, colors)],
   failuresHeader |-> failed > 0,
   ran |-> passed + failed,
   passed |-> passed,
   failed |-> failed]

\* The order in which pairs() goes through this.results and through the record
\* of a class is not specified: every order of the classes that have results
\* and of the methods recorded for each of them.
Perms(S) ==
  {p \in [1..Cardinality(S) -> S] : \A i, j \in 1..Cardinality(S) : i # j => p[i] # p[j]}

Present(res) == {c \in DOMAIN res : HasResults(res, c)}
Recorded(res, c) == {m \in DOMAIN res[c] : res[c][m] # <<>>}

RECURSIVE MethodOrders(_, _)
MethodOrders(res, S) ==
  IF S = {} THEN {[c \in {} |-> <<>>]}
  ELSE LET c == CHOOSE x \in S : TRUE IN
       {f @@ (c :> p) : f \in MethodOrders(res, S \ {c}), p \in Perms(Recorded(res, c))}

IterationOrders(res) ==
  {[classes |-> cs, methods |-> ms] :
     cs \in Perms(Present(res)), ms \in MethodOrders(res, DOMAIN res)}

\* Lines 175 and 188: the last sibling takes the corner connector (U+2514 and
\* two U+2500), the others the tee (U+251C); line 186: the bar (U+2502) or a
\* blank before a row line.
Corner == "L--"
Tee == "T--"
Bar == "|"
Blank == " "

connector(isLast) == IF isLast THEN Corner ELSE Tee

\* Line 173.
hasInputs(cases) == cases # <<>> /\ cases[1].inputs # <<>>

rowPrefix(isLastResult) == IF isLastResult THEN Bar ELSE Blank

\* Lines 179-189: the lines of the cases of a method with inputs.
rowLinesBackwards(cases, isLastResult, colors) ==
  [j \in 1..Len(cases) |->
     [prefix |-> rowPrefix(isLastResult),
      connector |-> connector(j = Len(cases)),
      glyph |-> getSymbol(cases[Len(cases) + 1 - j].errorMessage = <<>>, colors),
      inputs |-> cases[Len(cases) + 1 - j].inputs]]

rowLines(cases, isLastResult, colors) ==
  [j \in 1..Len(cases) |->
     [prefix |-> rowPrefix(isLastResult),
      connector |-> connector(j = Len(cases)),
      glyph |-> getSymbol(cases[j].errorMessage = <<>>, colors),
      inputs |-> cases[j].inputs]]

\* Lines 164-192: the line of each method recorded for the class, with its rows.
methodConnectorWithRows(isLastResult, cases) ==
  connector(isLastResult \/ hasInputs(cases))

methodConnector(isLastResult, cases) == connector(isLastResult)

methodLines(record, names, colors) ==
  [i \in 1..Len(names) |->
     [connector |-> methodConnector(i = Len(names), record[names[i]]),
      glyph |-> getSymbol(casesPassed(record[names[i]]), colors),
      name |-> names[i],
      rows |-> IF hasInputs(record[names[i]])
                 THEN rowLines(record[names[i]], i = Len(names), colors)
                 ELSE <<>>]]

\* Lines 202-219: an entry per case with an errorMessage, numbered from 1, with
\* an Inputs line when the case has inputs.
failuresOfMethod(c, name, cases) ==
  LET failing == SelectSeq(cases, LAMBDA r : r.errorMessage # <<>>) IN
  [i \in 1..Len(failing) |->
     [cls |-> c, name |-> name, inputsLine |-> failing[i].inputs # <<>>,
      inputs |-> failing[i].inputs, errorMessage |-> failing[i].errorMessage]]

failuresOfClass(res, c, names) ==
  Flatten([i \in 1..Len(names) |-> failuresOfMethod(c, names[i], res[c][names[i]])])

numberedFromZero(entries) ==
  [i \in 1..Len(entries) |-> [index |-> i - 1, entry |-> entries[i]]]

numbered(entries) ==
  [i \in 1..Len(entries) |-> [index |-> i, entry |-> entries[i]]]

failureSection(res, order) ==
  numbered(Flatten([i \in 1..Len(order.classes) |->
             failuresOfClass(res, order.classes[i], order.methods[order.classes[i]])]))

\* The tree (lines 154-195) and the failure section of a report.
renderOutput(res, colors, order) ==
  [tree |-> [c \in DOMAIN res |-> methodLines(res[c], order.methods[c], colors)],
   failures |-> failureSection(res, order)]

\* Lines 27-30 and 75: Object.assign({}, DEFAULT_TEST_RUN_OPTIONS, options).
DEFAULT_TEST_RUN_OPTIONS == [reporter |-> "print", colors |-> FALSE]

ObjectAssignWhole(defaults, given) ==
  IF DOMAIN given = DOMAIN defaults THEN given ELSE defaults

ObjectAssign(defaults, given) ==
  [k \in DOMAIN defaults \cup DOMAIN given |->
     IF k \in DOMAIN given THEN given[k] ELSE defaults[k]]

\* Line 77: the instance that comes with the class in the pair.
testClassFresh(c) == instanceOf[c] + 1

testClassOf(c) == instanceOf[c]

ReceiverAt(tc, p) == [cls |-> tc[p.ci], instance |-> testClassOf(tc[p.ci])]

\* Line 68, "this.results = new Map".
KeepResults(res) == res

ResultsAtRunStart(res) == NoResults

\* The end of a step of run(): either a test case is awaited, or run() threw, or
\* the loop is over and the reporter is given the output.
\* Lines 117 and 129/140: the next test case is called once the awaited one
\* has settled and its result is added.
InvokedEagerly(tc, next) ==
  IF next.pc = "awaiting"
    THEN <<CaseAt(tc, next.pos)>>
           \o (IF Continue(tc, next.pos).pc = "awaiting"
                 THEN <<CaseAt(tc, Continue(tc, next.pos).pos)>> ELSE <<>>)
    ELSE <<>>

InvokedNext(tc, next) ==
  IF next.pc = "awaiting" THEN <<CaseAt(tc, next.pos)>> ELSE <<>>

Proceed(tc, next, res, passed, failed) ==
  /\ pc' = next.pc
  /\ pos' = next.pos
  /\ rejection' = next.rejection
  /\ invocations' = invocations \o InvokedNext(tc, next)
  /\ receivers' =
       IF next.pc = "awaiting" THEN Append(receivers, ReceiverAt(tc, next.pos))
       ELSE receivers
  /\ reports' =
       IF next.pc = "done"
         THEN Append(reports, generateOutput(res, passed, failed, options.colors))
         ELSE reports
  /\ reporterCalls' =
       IF next.pc = "done" THEN Append(reporterCalls, options.reporter)
       ELSE reporterCalls
  /\ rendered' \in
       IF next.pc = "done"
         THEN {Append(rendered, renderOutput(res, options.colors, order)) :
                 order \in IterationOrders(res)}
         ELSE {rendered}

\* Each class is given to the runner once (a module is required once), by the
\* script that owns the runner and so not while a run is in flight.
\* Line 64: the class is pushed with a new instance of it.
push(list, c) == Append(list, c)

addClass(c) ==
  /\ ~Loaded(c)
  /\ pc # "awaiting"
  /\ constructed' = [constructed EXCEPT ![c] = @ + 1]
  /\ instanceOf' = [instanceOf EXCEPT ![c] = constructed'[c]]
  /\ testClasses' = push(testClasses, c)
  /\ discovered' = Append(discovered, c)
  /\ added' = TRUE
  /\ lastCall' = NoCall
  /\ UNCHANGED <<metadata, properties, roots, runVars>>

\* Lines 236-240: addClass for each module of each root, in order.
getDescendantsOfType(root) == root

RECURSIVE addClasses(_, _)
addClasses(list, cs) ==
  IF cs = <<>> THEN list ELSE addClasses(push(list, Head(cs)), Tail(cs))

RECURSIVE loadModulesLastFirst(_, _)
loadModulesLastFirst(list, rs) ==
  IF rs = <<>> THEN list
  ELSE addClasses(loadModulesLastFirst(list, Tail(rs)), getDescendantsOfType(Head(rs)))

RECURSIVE loadModules(_, _)
loadModules(list, rs) ==
  IF rs = <<>> THEN list
  ELSE loadModules(addClasses(list, getDescendantsOfType(Head(rs))), Tail(rs))

\* The default parameter of run() and what callers pass for options.
NoArgument == DEFAULT_TEST_RUN_OPTIONS
OnlyColors == [colors |-> TRUE]
OnlyReporter == [reporter |-> "custom"]
NoOptions == [k \in {} |-> FALSE]
BothOptions == [reporter |-> "custom", colors |-> TRUE]

run(given) ==
  /\ pc # "awaiting"
  /\ runs < MaxRuns
  /\ runs' = runs + 1
  /\ prevReports' = reports
  /\ sameClasses' = (runs > 0 /\ ~added)
  /\ added' = FALSE
  /\ results' = ResultsAtRunStart(results)
  /\ testClasses' = sort(testClasses)
  /\ options' = ObjectAssign(DEFAULT_TEST_RUN_OPTIONS, given)
  /\ lastCall' = NoCall
  /\ invocations' = InvokedNext(testClasses', Start(testClasses'))
  /\ receivers' = IF Start(testClasses').pc = "awaiting"
                    THEN <<ReceiverAt(testClasses', Start(testClasses').pos)>> ELSE <<>>
  /\ pc' = Start(testClasses').pc
  /\ pos' = Start(testClasses').pos
  /\ rejection' = Start(testClasses').rejection
  /\ reports' = IF Start(testClasses').pc = "done"
                  THEN <<generateOutput(results', passedTests, failedTests, options'.colors)>>
                  ELSE <<>>
  /\ reporterCalls' = IF Start(testClasses').pc = "done" THEN <<options'.reporter>> ELSE <<>>
  /\ rendered' \in
       IF Start(testClasses').pc = "done"
         THEN {<<renderOutput(results', options'.colors, order)>> :
                 order \in IterationOrders(results')}
         ELSE {<<>>}
  /\ UNCHANGED <<metadata, properties, passedTests, failedTests, discovered,
                 constructed, instanceOf, roots, destroyCalls, second, subject,
                 outcome>>

\* The awaited test case returns.
settlePass ==
  /\ pc = "awaiting"
  /\ passedTests' = PassCount(passedTests)
  /\ results' = addResult(results, CaseAt(testClasses, pos).cls, CaseAt(testClasses, pos).name,
                          [errorMessage |-> <<>>, inputs |-> CaseAt(testClasses, pos).inputs])
  /\ Proceed(testClasses, AfterCase(testClasses, pos, TRUE), results', passedTests', failedTests)
  /\ UNCHANGED <<metadata, properties, lastCall, loadVars, failedTests, runs,
                 prevReports, sameClasses, options, destroyCalls, second, subject,
                 outcome>>

\* The awaited test case throws e.
settleFail(e) ==
  /\ pc = "awaiting"
  /\ e = Thrown[CaseAt(testClasses, pos).name]
  /\ failedTests' = FailCount(failedTests)
  /\ results' = addResult(results, CaseAt(testClasses, pos).cls, CaseAt(testClasses, pos).name,
                          [errorMessage |-> <<tostring(e)>>, inputs |-> CaseAt(testClasses, pos).inputs])
  /\ Proceed(testClasses, AfterCase(testClasses, pos, FALSE), results', passedTests, failedTests')
  /\ UNCHANGED <<metadata, properties, lastCall, loadVars, passedTests, runs,
                 prevReports, sameClasses, options, destroyCalls, second, subject,
                 outcome>>

Init ==
  /\ metadata = [c \in Classes |-> [s \in Slots |-> NoMeta]]
  /\ properties = [c \in Classes |-> <<>>]
  /\ lastCall = NoCall
  /\ testClasses = <<>>
  /\ results = NoResults
  /\ passedTests = 0
  /\ failedTests = 0
  /\ pc = "idle"
  /\ pos = NoPos
  /\ rejection = <<>>
  /\ reports = <<>>
  /\ runs = 0
  /\ invocations = <<>>
  /\ prevReports = <<>>
  /\ added = FALSE
  /\ sameClasses = FALSE
  /\ roots = <<>>
  /\ discovered = <<>>
  /\ constructed = [c \in Classes |-> 0]
  /\ instanceOf = [c \in Classes |-> 0]
  /\ receivers = <<>>
  /\ options = DEFAULT_TEST_RUN_OPTIONS
  /\ reporterCalls = <<>>
  /\ destroyCalls = [c \in Classes |-> 0]
  /\ rendered = <<>>
  /\ second = NoSecond
  /\ subject = NoSubject
  /\ outcome = NoOutcome

Next ==
  \/ \E c \in Classes, m \in Methods : Fact(c, m)
  \/ \E c \in Classes, m \in Methods : Theory(c, m)
  \/ \E c \in Classes, m \in Methods, args \in Rows : InlineData(c, m, args)
  \/ \E c \in Classes, n \in Orders : Order(c, n)
  \/ \E c \in Classes : addClass(c)
  \/ run(NoArgument)
  \/ settlePass
  \/ \E e \in {Thrown[m] : m \in Methods} : settleFail(e)

Spec == Init /\ [][Next]_vars

\* ------------------------------------------------- a suite of three classes
\* Three test classes as their decorators leave them: A and C with one Fact, B
\* with one Theory of two rows (equal or not) that may have been tagged Fact
\* after them, each class with or without an Order; the runner is constructed
\* over roots and classes are added to it afterwards.
SuiteClasses == {"A", "B", "C"}

FactMethod == [NoMeta EXCEPT !.fact = TRUE]
TheoryMethod(rows) == [NoMeta EXCEPT !.theory = TRUE, !.data = rows]
TheoryMethods ==
  {TheoryMethod(<<<<1>>, <<1>>>>), TheoryMethod(<<<<1>>, <<2>>>>),
   [TheoryMethod(<<<<1>>, <<2>>>>) EXCEPT !.fact = TRUE]}

DefinedClass(method, order) ==
  [s \in Slots |->
     IF s = "m1" THEN method
     ELSE IF s = NoProp THEN [NoMeta EXCEPT !.order = order]
     ELSE NoMeta]

SuiteDefinitions ==
  {[A |-> DefinedClass(FactMethod, oa),
    B |-> DefinedClass(method, ob),
    C |-> DefinedClass(FactMethod, oc)] :
     oa \in {0} \cup Orders, ob \in {0} \cup Orders, oc \in {0} \cup Orders,
     method \in TheoryMethods}

RootChoices == {<<>>, <<<<"A", "B">>>>, <<<<"B">>, <<"C", "A">>>>}

RECURSIVE Yielded(_)
Yielded(rs) == IF rs = <<>> THEN <<>> ELSE Head(rs) \o Yielded(Tail(rs))

Occurrences(list, c) == Cardinality({i \in 1..Len(list) : list[i] = c})

InitSuite ==
  /\ metadata \in SuiteDefinitions
  /\ properties = [c \in SuiteClasses |-> <<"m1">>]
  /\ lastCall = NoCall
  /\ roots \in RootChoices
  /\ testClasses = loadModules(<<>>, roots)
  /\ constructed = [c \in SuiteClasses |-> Occurrences(testClasses, c)]
  /\ instanceOf = constructed
  /\ discovered = Yielded(roots)
  /\ results = NoResults
  /\ passedTests = 0
  /\ failedTests = 0
  /\ pc = "idle"
  /\ pos = NoPos
  /\ rejection = <<>>
  /\ reports = <<>>
  /\ runs = 0
  /\ invocations = <<>>
  /\ prevReports = <<>>
  /\ added = FALSE
  /\ sameClasses = FALSE
  /\ receivers = <<>>
  /\ options = DEFAULT_TEST_RUN_OPTIONS
  /\ reporterCalls = <<>>
  /\ destroyCalls = [c \in SuiteClasses |-> 0]
  /\ rendered = <<>>
  /\ second = NoSecond
  /\ subject = NoSubject
  /\ outcome = NoOutcome

\* The suite is loaded before it is run.  Its Facts hold; a row of the Theory
\* may fail.
NextSuite ==
  \/ \E c \in SuiteClasses : runs = 0 /\ addClass(c)
  \/ run(NoArgument)
  \/ settlePass
  \/ \E e \in {Thrown[m] : m \in Methods} :
       pc = "awaiting" /\ CaseAt(testClasses, pos).inputs # <<>> /\ settleFail(e)

SpecSuite == InitSuite /\ [][NextSuite]_vars

\* ------------------------------------------------------ run() with options
\* One class with two Facts, run with and without a reporter and colors.
OptionsDefinition ==
  [c \in Classes |->
     [s \in Slots |-> IF c = "A" /\ s \in Methods THEN FactMethod ELSE NoMeta]]

InitOptions ==
  /\ metadata = OptionsDefinition
  /\ properties \in {[c \in Classes |-> IF c = "A" THEN ms ELSE <<>>] :
                        ms \in {<<"m1", "m2">>, <<"m2", "m1">>}}
  /\ lastCall = NoCall
  /\ roots = <<>>
  /\ testClasses = <<>>
  /\ constructed = [c \in Classes |-> 0]
  /\ instanceOf = [c \in Classes |-> 0]
  /\ discovered = <<>>
  /\ results = NoResults
  /\ passedTests = 0
  /\ failedTests = 0
  /\ pc = "idle"
  /\ pos = NoPos
  /\ rejection = <<>>
  /\ reports = <<>>
  /\ runs = 0
  /\ invocations = <<>>
  /\ prevReports = <<>>
  /\ added = FALSE
  /\ sameClasses = FALSE
  /\ receivers = <<>>
  /\ options = DEFAULT_TEST_RUN_OPTIONS
  /\ reporterCalls = <<>>
  /\ destroyCalls = [c \in Classes |-> 0]
  /\ rendered = <<>>
  /\ second = NoSecond
  /\ subject = NoSubject
  /\ outcome = NoOutcome

NextOptions ==
  \/ addClass("A")
  \/ \E given \in {NoArgument, NoOptions, OnlyColors, OnlyReporter, BothOptions} : run(given)
  \/ settlePass
  \/ \E e \in {Thrown[m] : m \in Methods} : settleFail(e)

SpecOptions == InitOptions /\ [][NextOptions]_vars

\* ------------------------------------------- a class with a Theory and a Fact
\* Class A as its decorators leave it: m1 a Theory with the rows (1) and (2),
\* m2 a Fact; the class is loaded by the constructor.
ReportDefinition ==
  [c \in Classes |->
     [s \in Slots |->
        IF c = "A" /\ s = "m1" THEN TheoryMethod(<<<<1>>, <<2>>>>)
        ELSE IF c = "A" /\ s = "m2" THEN FactMethod
        ELSE NoMeta]]

InitReport ==
  /\ metadata = ReportDefinition
  /\ properties \in {[c \in Classes |-> IF c = "A" THEN ms ELSE <<>>] :
                        ms \in {<<"m1", "m2">>, <<"m2", "m1">>}}
  /\ lastCall = NoCall
  /\ roots = <<<<"A">>>>
  /\ testClasses = loadModules(<<>>, roots)
  /\ constructed = [c \in Classes |-> Occurrences(testClasses, c)]
  /\ instanceOf = constructed
  /\ discovered = Yielded(roots)
  /\ results = NoResults
  /\ passedTests = 0
  /\ failedTests = 0
  /\ pc = "idle"
  /\ pos = NoPos
  /\ rejection = <<>>
  /\ reports = <<>>
  /\ runs = 0
  /\ invocations = <<>>
  /\ prevReports = <<>>
  /\ added = FALSE
  /\ sameClasses = FALSE
  /\ receivers = <<>>
  /\ options = DEFAULT_TEST_RUN_OPTIONS
  /\ reporterCalls = <<>>
  /\ destroyCalls = [c \in Classes |-> 0]
  /\ rendered = <<>>
  /\ second = NoSecond
  /\ subject = NoSubject
  /\ outcome = NoOutcome

NextReport ==
  \/ run(NoArgument)
  \/ settlePass
  \/ \E e \in {Thrown[m] : m \in Methods} : settleFail(e)

SpecReport == InitReport /\ [][NextReport]_vars

\* --------------------------------------------- run() called during a run()
\* run() has no guard against a call made while an earlier call awaits a test
\* case: the second call renews this.results, sorts and goes through the
\* classes on its own, sharing the fields of the runner with the first.
runAgain ==
  /\ pc = "awaiting"
  /\ second.pc = "idle"
  /\ runs < MaxRuns
  /\ runs' = runs + 1
  /\ results' = ResultsAtRunStart(results)
  /\ testClasses' = sort(testClasses)
  /\ second' = [pc |-> Start(testClasses').pc,
                pos |-> Start(testClasses').pos,
                invocations |-> InvokedNext(testClasses', Start(testClasses')),
                reports |-> IF Start(testClasses').pc = "done"
                              THEN <<generateOutput(results', passedTests, failedTests,
                                                    options.colors)>>
                              ELSE <<>>]
  /\ UNCHANGED <<metadata, properties, lastCall, added, discovered, constructed,
                 instanceOf, roots, passedTests, failedTests, pc, pos, rejection,
                 reports, invocations, prevReports, sameClasses, receivers, options,
                 reporterCalls, destroyCalls, rendered, subject, outcome>>

ProceedSecond(tc, next, res, passed, failed) ==
  second' = [pc |-> next.pc,
             pos |-> next.pos,
             invocations |-> second.invocations \o InvokedNext(tc, next),
             reports |-> IF next.pc = "done"
                           THEN Append(second.reports,
                                       generateOutput(res, passed, failed, options.colors))
                           ELSE second.reports]

\* The test case awaited by the second call returns.
settleSecondPass ==
  /\ second.pc = "awaiting"
  /\ passedTests' = PassCount(passedTests)
  /\ results' = addResult(results, CaseAt(testClasses, second.pos).cls,
                          CaseAt(testClasses, second.pos).name,
                          [errorMessage |-> <<>>,
                           inputs |-> CaseAt(testClasses, second.pos).inputs])
  /\ ProceedSecond(testClasses, AfterCase(testClasses, second.pos, TRUE), results',
                   passedTests', failedTests)
  /\ UNCHANGED <<metadata, properties, lastCall, loadVars, failedTests, pc, pos,
                 rejection, reports, runs, invocations, prevReports, sameClasses,
                 receivers, options, reporterCalls, destroyCalls, rendered, subject,
                 outcome>>

\* The test case awaited by the second call throws e.
settleSecondFail(e) ==
  /\ second.pc = "awaiting"
  /\ e = Thrown[CaseAt(testClasses, second.pos).name]
  /\ failedTests' = FailCount(failedTests)
  /\ results' = addResult(results, CaseAt(testClasses, second.pos).cls,
                          CaseAt(testClasses, second.pos).name,
                          [errorMessage |-> <<tostring(e)>>,
                           inputs |-> CaseAt(testClasses, second.pos).inputs])
  /\ ProceedSecond(testClasses, AfterCase(testClasses, second.pos, FALSE), results',
                   passedTests, failedTests')
  /\ UNCHANGED <<metadata, properties, lastCall, loadVars, passedTests, pc, pos,
                 rejection, reports, runs, invocations, prevReports, sameClasses,
                 receivers, options, reporterCalls, destroyCalls, rendered, subject,
                 outcome>>

\* One call of run(), and a second one while the first is awaiting.
NextReentrant ==
  \/ runs = 0 /\ run(NoArgument)
  \/ runAgain
  \/ settlePass
  \/ \E e \in {Thrown[m] : m \in Methods} : settleFail(e)
  \/ settleSecondPass
  \/ \E e \in {Thrown[m] : m \in Methods} : settleSecondFail(e)

SpecReentrant == InitReport /\ [][NextReentrant]_vars

\* ------------------------------------------------------------- formatTime
\* Durations are held in tenths of a microsecond, so that the comparisons and
\* the roundings of formatTime are exact: one millisecond (the unit of the
\* argument, line 38), one microsecond (0.001, line 40), one second (1000,
\* line 35).
Milli == 10000
Micro == 10
Second == 10000000

\* The largest multiple taken of each step of Durations.
MaxStep == 16

Durations ==
  {k * step : k \in 0..MaxStep, step \in {1, Micro * 25, Milli \div 4, Second \div 4}}

\* math.round of num / den for a figure that is not negative.
round(num, den) == (2 * num + den) \div (2 * den)

formatTime(ms) ==
  IF ms >= Second THEN [figure |-> round(ms, Second), unit |-> "s"]
  ELSE IF ms >= Milli THEN [figure |-> round(ms, Milli), unit |-> "ms"]
  ELSE IF ms >= Micro THEN [figure |-> round(ms, Micro), unit |-> "us"]
  ELSE [figure |-> round(ms, Milli), unit |-> "ms"]

\* --------------------------------------------------- Assert (src/assert.ts)
\* A text is the sequence of its lines.  A thrown value is a string or an
\* object of class AssertionFailedException.
Messages == {<<"context">>, <<"while", "checking">>, <<"">>}
Metas == {<<>>, <<"1:2">>}

\* AssertionFailedException.toString(), lines 194-197.
toString(message, meta) ==
  <<IF meta # <<>> THEN "[1:2] Test failed!" ELSE "Test failed!">> \o message

\* What "throw new AssertionFailedException(message, meta)" raises: the
\* constructor itself calls error(this.toString(), 0) (line 175), so the
\* expression never yields an object to throw and a string is raised.
newAssertionFailedException(message, meta) ==
  [type |-> "string", text |-> toString(message, meta)]

\* AssertionFailedException.equality, lines 178-180.
equality(expected, actual, meta) ==
  newAssertionFailedException(<<<<"Expected", expected>>, <<"Actual", actual>>>>, meta)

instanceofAssertionFailedException(e) == e.type = "AssertionFailedException"

\* tostring of a thrown value, as the runner records it (part_006:102): the
\* string itself, or toString() of an object of the class.
textOf(e) == IF e.type = "string" THEN e.text ELSE toString(e.message, e.meta)

\* Range.isNumberWithin of @rbxts/range.
isNumberWithin(range, number) == range[1] <= number /\ number <= range[2]

Numbers == 0..4

\* The runners given to appendFailedMessage: one that returns, ones that
\* throw a plain string, and ones that fail an assertion.
Runners ==
  {[does |-> "returns"], [does |-> "throws", value |-> [type |-> "string", text |-> <<"boom">>]]}
    \cup {[does |-> "fails", message |-> msg, meta |-> meta] :
            msg \in {<<"Expected string">>, <<"Expected: 1", "Actual: 2">>}, meta \in Metas}

\* The value the runner raises.
raisedBy(runner) ==
  IF runner.does = "fails" THEN newAssertionFailedException(runner.message, runner.meta)
  ELSE runner.value

Subjects ==
  {[op |-> "formatTime", ms |-> d] : d \in Durations}
    \cup {[op |-> "inRange", number |-> n, minimum |-> lo, maximum |-> hi] :
            n \in Numbers, lo \in Numbers, hi \in Numbers}
    \cup {[op |-> "appendFailedMessage", message |-> msg, runner |-> r] :
            msg \in Messages, r \in Runners}

Returned == [kind |-> "returned"]
Threw(e) == [kind |-> "thrown", value |-> e, recorded |-> textOf(e)]

formatTimeCall ==
  /\ subject.op = "formatTime"
  /\ outcome = NoOutcome
  /\ outcome' = [kind |-> "formatted", text |-> formatTime(subject.ms)]
  /\ UNCHANGED <<regVars, loadVars, results, passedTests, failedTests, pc, pos,
                 rejection, reports, runs, invocations, prevReports, sameClasses,
                 receivers, options, reporterCalls, destroyCalls, rendered, second,
                 subject>>

\* Assert.inRange(number, minimum, maximum), lines 375-377.
inRangeNumbers ==
  /\ subject.op = "inRange"
  /\ outcome = NoOutcome
  /\ outcome' = IF subject.number >= subject.minimum /\ subject.number <= subject.maximum
                  THEN [overload |-> "numbers"] @@ Returned
                  ELSE [overload |-> "numbers"]
                         @@ Threw(equality(<<subject.minimum, subject.maximum>>,
                                           subject.number, <<>>))
  /\ UNCHANGED <<regVars, loadVars, results, passedTests, failedTests, pc, pos,
                 rejection, reports, runs, invocations, prevReports, sameClasses,
                 receivers, options, reporterCalls, destroyCalls, rendered, second,
                 subject>>

\* Assert.inRange(number, range), lines 378-382.
inRangeRange ==
  /\ subject.op = "inRange"
  /\ outcome = NoOutcome
  /\ LET range == <<subject.minimum, subject.maximum>> IN
     outcome' = IF ~isNumberWithin(range, subject.number)
                  THEN [overload |-> "range"] @@ Returned
                  ELSE [overload |-> "range"] @@ Threw(equality(range, subject.number, <<>>))
  /\ UNCHANGED <<regVars, loadVars, results, passedTests, failedTests, pc, pos,
                 rejection, reports, runs, invocations, prevReports, sameClasses,
                 receivers, options, reporterCalls, destroyCalls, rendered, second,
                 subject>>

\* Assert.appendFailedMessage(message, runner), lines 461-470.
appendFailedMessage ==
  /\ subject.op = "appendFailedMessage"
  /\ outcome = NoOutcome
  /\ outcome' =
       IF subject.runner.does = "returns" THEN Returned
       ELSE LET e == raisedBy(subject.runner) IN
            IF instanceofAssertionFailedException(e)
              THEN Threw([e EXCEPT !.message = subject.message \o @])
              ELSE Threw(e)
  /\ UNCHANGED <<regVars, loadVars, results, passedTests, failedTests, pc, pos,
                 rejection, reports, runs, invocations, prevReports, sameClasses,
                 receivers, options, reporterCalls, destroyCalls, rendered, second,
                 subject>>

InitFunctions ==
  /\ metadata = [c \in Classes |-> [s \in Slots |-> NoMeta]]
  /\ properties = [c \in Classes |-> <<>>]
  /\ lastCall = NoCall
  /\ roots = <<>>
  /\ testClasses = <<>>
  /\ constructed = [c \in Classes |-> 0]
  /\ instanceOf = constructed
  /\ discovered = <<>>
  /\ results = NoResults
  /\ passedTests = 0
  /\ failedTests = 0
  /\ pc = "idle"
  /\ pos = NoPos
  /\ rejection = <<>>
  /\ reports = <<>>
  /\ runs = 0
  /\ invocations = <<>>
  /\ prevReports = <<>>
  /\ added = FALSE
  /\ sameClasses = FALSE
  /\ receivers = <<>>
  /\ options = DEFAULT_TEST_RUN_OPTIONS
  /\ reporterCalls = <<>>
  /\ destroyCalls = [c \in Classes |-> 0]
  /\ rendered = <<>>
  /\ second = NoSecond
  /\ subject \in Subjects
  /\ outcome = NoOutcome

NextFunctions ==
  \/ formatTimeCall
  \/ inRangeNumbers
  \/ inRangeRange
  \/ appendFailedMessage

SpecFunctions == InitFunctions /\ [][NextFunctions]_vars

\* ================================================================ claims
\* The cases a class calls for: one per method tagged Fact, one per data row of
\* each method tagged Theory.
CasesOfMethod(c, m) ==
  (IF metadata[c][m].fact THEN 1 ELSE 0)
    + (IF metadata[c][m].theory THEN Len(metadata[c][m].data) ELSE 0)

CasesOfClass(c) == SumOver([m \in Methods |-> CasesOfMethod(c, m)], Methods)

CasesOfRun == SumSeq([i \in 1..Len(testClasses) |-> CasesOfClass(testClasses[i])])

InvocationsOf(c, m) == SelectSeq(invocations, LAMBDA v : v.cls = c /\ v.name = m)

Passing(rs) == SelectSeq(rs, LAMBDA r : r.errorMessage = <<>>)
Failing(rs) == SelectSeq(rs, LAMBDA r : r.errorMessage # <<>>)

AllResults(res) ==
  SumOver([c \in DOMAIN res |-> SumOver([m \in Methods |-> Len(res[c][m])], Methods)],
          DOMAIN res)
AllPassing(res) ==
  SumOver([c \in DOMAIN res |-> SumOver([m \in Methods |-> Len(Passing(res[c][m]))], Methods)],
          DOMAIN res)
AllFailing(res) ==
  SumOver([c \in DOMAIN res |-> SumOver([m \in Methods |-> Len(Failing(res[c][m]))], Methods)],
          DOMAIN res)

\* The last run() has ended, completed or rejected, and testClasses is still
\* what it ran over.
Completed == pc = "done" /\ ~added
Rejected == pc = "rejected" /\ ~added

\* C1: a run that completes without a configuration error invokes each Fact once
\* and each Theory once per data row, N + sum(k_i) invocations in all, and the
\* passed + failed total of its report is that number.
C1_RunCountsEveryCase ==
  Completed =>
    /\ \A c \in Range(testClasses), m \in Methods :
         Len(InvocationsOf(c, m)) = CasesOfMethod(c, m)
    /\ Len(invocations) = CasesOfRun
    /\ reports[1].passed + reports[1].failed = CasesOfRun
    /\ reports[1].ran = CasesOfRun

\* The order in which a run goes through the loaded classes' cases: per class its
\* Facts, then for each Theory its rows from the last stored to the first.
PlanOfTheory(c, m) ==
  [i \in 1..Len(testData(c, m)) |->
     [cls |-> c, name |-> m, inputs |-> <<Reverse(testData(c, m))[i]>>]]

PlanOfClass(c) ==
  [i \in 1..Len(factNames(c)) |-> [cls |-> c, name |-> factNames(c)[i], inputs |-> <<>>]]
    \o Flatten([i \in 1..Len(theoryNames(c)) |-> PlanOfTheory(c, theoryNames(c)[i])])

PlanOfRun == Flatten([i \in 1..Len(testClasses) |-> PlanOfClass(testClasses[i])])

TheoryWithoutData(c, m) == IsTheoryName(c, m) /\ testData(c, m) = <<>>

\* C2: a test case that throws does not abort the run: a failing result is
\* recorded for it, every case that follows in the run order is still invoked,
\* and run() resolves (the reporter is called); run() rejects only for a Theory
\* without data, never for what a test case threw.
C2_FailureDoesNotAbort ==
  /\ Completed =>
       /\ invocations = PlanOfRun
       /\ Len(reports) = 1
       /\ AllResults(results) = Len(invocations)
  /\ pc = "awaiting" =>
       /\ invocations = SubSeq(PlanOfRun, 1, Len(invocations))
       /\ AllResults(results) = Len(invocations) - 1
  /\ Rejected =>
       \E c \in Range(testClasses) : TheoryWithoutData(c, rejection[1])

\* A run resolved although its first case failed, and went on to a second case.
C2_Witness ==
  /\ Completed
  /\ Len(invocations) >= 2
  /\ results[invocations[1].cls][invocations[1].name][1].errorMessage # <<>>
  /\ AllResults(results) = Len(invocations)

\* The textual form of a thrown value.
TextualForm(e) == IF e.type = "string" THEN e.text ELSE IF e.num = 42 THEN "42" ELSE "?"

LastOf(s) == s[Len(s)]
ResultsOfCase(res, cs) == res[cs.cls][cs.name]

\* C3: when a test case completes without raising, the result recorded for it has
\* no errorMessage and passedTests grows by one, failedTests staying; when it
\* raises e, the result's errorMessage is the textual form of e and failedTests
\* grows by one, passedTests staying.
C3_ResultMatchesOutcome ==
  [][/\ settlePass =>
          /\ Len(ResultsOfCase(results', CaseAt(testClasses, pos)))
               = Len(ResultsOfCase(results, CaseAt(testClasses, pos))) + 1
          /\ LastOf(ResultsOfCase(results', CaseAt(testClasses, pos))).errorMessage = <<>>
          /\ passedTests' = passedTests + 1
          /\ failedTests' = failedTests
     /\ \A m \in Methods :
          settleFail(Thrown[m]) =>
            /\ Len(ResultsOfCase(results', CaseAt(testClasses, pos)))
                 = Len(ResultsOfCase(results, CaseAt(testClasses, pos))) + 1
            /\ LastOf(ResultsOfCase(results', CaseAt(testClasses, pos))).errorMessage
                 = <<TextualForm(Thrown[m])>>
            /\ failedTests' = failedTests + 1
            /\ passedTests' = passedTests]_vars

\* A case that threw a number and a case that passed have both been recorded.
C3_Witness ==
  /\ \E c \in Classes, m \in Methods :
       \E i \in 1..Len(results[c][m]) : results[c][m][i].errorMessage = <<"42">>
  /\ \E c \in Classes, m \in Methods :
       \E i \in 1..Len(results[c][m]) : results[c][m][i].errorMessage = <<>>
  /\ passedTests >= 1
  /\ failedTests >= 1

\* C4: run() called again with the same classes and the same outcome of every
\* case gives a report equal to the first but for timing: the same tree and
\* failure entries, and the same Ran, Passed and Failed figures.
C4_SecondReportEqualsFirst ==
  (pc = "done" /\ sameClasses /\ prevReports # <<>>
     /\ reports[1].tree = prevReports[1].tree) =>
    /\ reports[1].ran = prevReports[1].ran
    /\ reports[1].passed = prevReports[1].passed
    /\ reports[1].failed = prevReports[1].failed
    /\ reports[1].failuresHeader = prevReports[1].failuresHeader

\* C5: the counters agree with the recorded results: passedTests is the number of
\* results without an errorMessage, failedTests the number with one.
C5_CountersMatchResults ==
  /\ passedTests = AllPassing(results)
  /\ failedTests = AllFailing(results)
  /\ passedTests + failedTests = AllResults(results)

\* C6: after a completed run the results hold one result per case invoked in that
\* run, with that case's inputs and in invocation order, and nothing of an
\* earlier run.
C6_ResultsAreThisRunOnly ==
  pc = "done" =>
    /\ \A c \in Classes, m \in Methods :
         [i \in 1..Len(results[c][m]) |-> results[c][m][i].inputs]
           = [i \in 1..Len(InvocationsOf(c, m)) |-> InvocationsOf(c, m)[i].inputs]
    /\ AllResults(results) = Len(invocations)

\* A second run has completed after a first one that recorded results.
C6_Witness ==
  /\ pc = "done"
  /\ runs = 2
  /\ prevReports # <<>>
  /\ AllResults(prevReports[1].tree) >= 1
  /\ AllResults(results) >= 1

\* C7: a run that meets a method tagged Theory without data rows rejects with an
\* error naming it, records no result for it, invokes nothing after it and never
\* calls the reporter; so no run completes over such a method.
C7_TheoryWithoutDataRejects ==
  /\ Completed =>
       \A c \in Range(testClasses), m \in Methods :
         ~(metadata[c][m].theory /\ metadata[c][m].data = <<>>)
  /\ Rejected =>
       /\ reports = <<>>
       /\ \E c \in Range(testClasses) :
            /\ metadata[c][rejection[1]].theory
            /\ metadata[c][rejection[1]].data = <<>>
            /\ results[c][rejection[1]] = <<>>

\* C8: a method marked both Fact and Theory is refused at registration, whichever
\* tag comes first: no method ever carries both tags.
C8_NeverFactAndTheory ==
  \A c \in Classes, m \in Methods : ~(metadata[c][m].fact /\ metadata[c][m].theory)

\* C9: InlineData on a method already tagged Fact raises the "data can only be
\* used on Theories" error and stores no data row for that method.
C9_InlineDataOnFactRaises ==
  [][\A c \in Classes, m \in Methods :
       /\ metadata[c][m].fact => metadata'[c][m].data = metadata[c][m].data
       /\ \A args \in Rows :
            (InlineData(c, m, args) /\ metadata[c][m].fact) =>
              /\ lastCall' = [op |-> "InlineData", cls |-> c, method |-> m,
                              error |-> "UnexpectedData"]
              /\ metadata' = metadata]_vars

\* InlineData was applied to a Fact and raised.
C9_Witness ==
  /\ lastCall.op = "InlineData"
  /\ lastCall.error = "UnexpectedData"
  /\ metadata[lastCall.cls][lastCall.method].fact
  /\ metadata[lastCall.cls][lastCall.method].data = <<>>

\* C10: tagging Fact a method that already has data rows raises an error, and the
\* method is not recorded as a Fact.
C10_FactOnDataRaises ==
  [][\A c \in Classes, m \in Methods :
       (metadata[c][m].data # <<>> /\ ~metadata[c][m].fact) => ~metadata'[c][m].fact]_vars

\* The declared load order of a class, 0 when it declares none.
DeclaredOrder(c) == metadata[c][NoProp].order

\* a declares an order smaller than b's, or declares one while b declares none.
DeclaredBefore(a, b) ==
  /\ DeclaredOrder(a) # 0
  /\ DeclaredOrder(b) = 0 \/ DeclaredOrder(a) < DeclaredOrder(b)

SameDeclaredOrder(a, b) == DeclaredOrder(a) = DeclaredOrder(b)

\* The place of a class among the classes given to the runner.
DiscoveryIndex(c) == CHOOSE i \in 1..Len(discovered) : discovered[i] = c

\* C11: in every run the classes are executed in ascending declared load order:
\* when class a declares a smaller order than class b, or declares one while b
\* declares none, every test case of a is invoked before any test case of b.
C11_AscendingLoadOrder ==
  \A i \in 1..Len(invocations), j \in 1..Len(invocations) :
    DeclaredBefore(invocations[i].cls, invocations[j].cls) => i < j

\* A completed run invoked the cases of three classes, and a class discovered
\* last was executed first because of its declared order.
C11_Witness ==
  /\ Completed
  /\ Len(testClasses) = 3
  /\ Len(invocations) >= 3
  /\ DeclaredBefore(invocations[1].cls, LastOf(invocations).cls)
  /\ DiscoveryIndex(invocations[1].cls) = 3
  /\ \E c \in Range(testClasses) : DeclaredOrder(c) = 0

\* C12: the load-order sort is stable: classes with the same declared order, or
\* both without one, are executed in the order in which they were given to the
\* runner, in the first run and in every later one.
C12_SortIsStable ==
  \A i \in 1..Len(invocations), j \in 1..Len(invocations) :
    (SameDeclaredOrder(invocations[i].cls, invocations[j].cls)
       /\ DiscoveryIndex(invocations[i].cls) < DiscoveryIndex(invocations[j].cls))
      => i < j

\* C13: for every loaded class whose instance defines destroy, the runner calls
\* destroy exactly once per run, after the class's test cases have finished.
C13_DestroyOncePerRun ==
  Completed =>
    \A c \in Range(testClasses) \cap WithDestroy :
      CasesOfClass(c) >= 1 => destroyCalls[c] = 1

C15_RootsEqualAddClass ==
  /\ runs = 0 => testClasses = addClasses(<<>>, discovered)
  /\ runs > 0 => testClasses = sort(addClasses(<<>>, discovered))
  /\ \A c \in DOMAIN constructed :
       /\ constructed[c] = Occurrences(discovered, c)
       /\ instanceOf[c] = Occurrences(discovered, c)
  /\ Completed => invocations = PlanOfRun

\* A runner constructed over two roots that yield three classes has completed a
\* run over them.
C15_Witness ==
  /\ Completed
  /\ Len(roots) = 2
  /\ discovered = Yielded(roots)
  /\ Len(discovered) = 3
  /\ Len(invocations) >= 3

\* C16: within a run the test cases execute one after the other: a case is
\* invoked only once the case before it has settled and its result is recorded,
\* so at most one case is in flight and the results are in invocation order.
C16_OneCaseInFlight ==
  /\ pc = "awaiting" => Len(invocations) = AllResults(results) + 1
  /\ pc # "awaiting" => Len(invocations) = AllResults(results)
  /\ \A c \in DOMAIN results, m \in Methods :
       /\ Len(results[c][m]) <= Len(InvocationsOf(c, m))
       /\ \A i \in 1..Len(results[c][m]) :
            results[c][m][i].inputs = InvocationsOf(c, m)[i].inputs

\* The second case of a run is in flight and the first one's result is recorded.
C16_Witness ==
  /\ pc = "awaiting"
  /\ Len(invocations) = 2
  /\ AllResults(results) = 1
  /\ ResultsOfCase(results, invocations[1]) # <<>>

\* C17: in a completed run a Theory method with k data rows has exactly k
\* results under its name, one per row, each with the argument values of its
\* row as inputs, also when two rows are equal.
C17_OneResultPerRow ==
  Completed =>
    \A c \in Range(testClasses), m \in Methods :
      (metadata[c][m].theory /\ testData(c, m) # <<>>) =>
        /\ Len(results[c][m]) = Len(testData(c, m))
        /\ \A i \in 1..Len(results[c][m]) :
             results[c][m][i].inputs = <<Reverse(testData(c, m))[i]>>

\* The glyphs of a class's line without colors.
PassGlyph == "+"
FailGlyph == "x"

FailuresOfClass(tree, c) ==
  SumOver([m \in Methods |-> Len(Failing(tree[c][m]))], Methods)

\* C18: in the report a class's line shows the pass glyph if and only if every
\* case recorded for the class in the run passed; one failing case in any of its
\* methods makes it show the fail glyph, however many other methods passed.
C18_ClassGlyph ==
  \A i \in 1..Len(reports) : \A c \in DOMAIN reports[i].tree :
    HasResults(reports[i].tree, c) =>
      /\ reports[i].classLines[c] = PassGlyph <=> FailuresOfClass(reports[i].tree, c) = 0
      /\ FailuresOfClass(reports[i].tree, c) >= 1 => reports[i].classLines[c] = FailGlyph

\* A report shows the fail glyph for a class of which one method passed and
\* another failed.
C18_Witness ==
  /\ Completed
  /\ reports # <<>>
  /\ \E c \in Range(testClasses) :
       /\ reports[1].classLines[c] = FailGlyph
       /\ \E m \in Methods : Passing(reports[1].tree[c][m]) # <<>>
       /\ \E m \in Methods : Failing(reports[1].tree[c][m]) # <<>>

Given(given, k, default) == IF k \in DOMAIN given THEN given[k] ELSE default

\* C19: every run() that meets no configuration error calls the reporter exactly
\* once, after the last case of the last class has settled, however many cases
\* failed; an omitted reporter or colors option takes its default (print,
\* false) whatever the other option is.
C19_ReporterOncePerRun ==
  /\ [](pc = "done" => Len(reporterCalls) = 1 /\ Len(reports) = 1
                        /\ reporterCalls[1] = options.reporter
                        /\ AllResults(reports[1].tree) = Len(invocations))
  /\ [](pc = "awaiting" => reporterCalls = <<>> /\ reports = <<>>)
  /\ [][\A given \in {NoArgument, NoOptions, OnlyColors, OnlyReporter, BothOptions} :
          run(given) =>
            /\ options'.reporter = Given(given, "reporter", "print")
            /\ options'.colors = Given(given, "colors", FALSE)]_vars

\* A run given only colors has reported once to print, with a failed case.
C19_Witness ==
  /\ pc = "done"
  /\ options.colors
  /\ reporterCalls = <<"print">>
  /\ AllFailing(results) >= 1
  /\ Len(invocations) = 2

Untagged(c, m) == ~metadata[c][m].fact /\ ~metadata[c][m].theory

SettledOf(c, m) ==
  IF pc = "awaiting" /\ LastOf(invocations).cls = c /\ LastOf(invocations).name = m
    THEN Len(InvocationsOf(c, m)) - 1
    ELSE Len(InvocationsOf(c, m))

\* C21: metadata and results are keyed by the class itself: a tag, data row or
\* load order registered for class c leaves those of every other class as they
\* were, also for a class of the same name with a method of the same name, and
\* a run records the results of two classes under two entries.
C21_KeyedByClass ==
  /\ [][\A c \in Classes :
          ((\E m \in Methods : Fact(c, m) \/ Theory(c, m)
                                \/ \E args \in Rows : InlineData(c, m, args))
             \/ \E n \in Orders : Order(c, n)) =>
            \A d \in Classes \ {c} :
              metadata'[d] = metadata[d] /\ properties'[d] = properties[d]]_vars
  /\ [](\A c \in DOMAIN results, m \in Methods : Len(results[c][m]) = SettledOf(c, m))

\* Two classes of the same name, each with a Fact m1, have run: each has its
\* own result.
C21_Witness ==
  /\ Completed
  /\ nameOf("A") = nameOf("B")
  /\ metadata["A"]["m1"].fact /\ metadata["B"]["m1"].fact
  /\ Len(results["A"]["m1"]) = 1
  /\ Len(results["B"]["m1"]) = 1

\* C22: also when run() is called again before an earlier run() has resolved,
\* no two test cases of the same class instance are in flight at the same time,
\* and each run's report holds that run's results and counts only.
C22_NoOverlapOnInstance ==
  /\ (pc = "awaiting" /\ second.pc = "awaiting") =>
       testClassOf(CaseAt(testClasses, pos).cls)
         # testClassOf(CaseAt(testClasses, second.pos).cls)
  /\ pc = "done" =>
       /\ AllResults(reports[1].tree) = Len(invocations)
       /\ reports[1].ran = Len(invocations)
  /\ second.pc = "done" =>
       /\ AllResults(second.reports[1].tree) = Len(second.invocations)
       /\ second.reports[1].ran = Len(second.invocations)

\* The line of method m among the method lines of a class.
LineOf(lines, m) == lines[CHOOSE k \in 1..Len(lines) : lines[k].name = m]

InputsOf(rs) == [i \in 1..Len(rs) |-> rs[i].inputs]

\* The Theory methods of the loaded classes, as [cls, name].
TheoriesRun ==
  {cm \in Range(testClasses) \X Methods : cm[2] \in Range(theoryNames(cm[1]))}

FailureEntriesOf(failures, c, m) ==
  SelectSeq([i \in 1..Len(failures) |-> failures[i].entry],
            LAMBDA e : e.cls = c /\ e.name = m)

\* C23: the rows of a Theory are invoked in the reverse of their stored order;
\* the report gives their lines in that order of invocation, and the failing
\* rows appear in the failure section in the same relative order.
C23_RowsInInvocationOrder ==
  /\ \A cm \in TheoriesRun :
       \A i \in 1..Len(InvocationsOf(cm[1], cm[2])) :
         InvocationsOf(cm[1], cm[2])[i].inputs
           = <<testData(cm[1], cm[2])[Len(testData(cm[1], cm[2])) + 1 - i]>>
  /\ (pc = "done" /\ rendered # <<>>) =>
       \A cm \in TheoriesRun :
         LET invoked == InputsOf(InvocationsOf(cm[1], cm[2]))
             failed == {r.inputs : r \in Range(Failing(results[cm[1]][cm[2]]))}
         IN /\ InputsOf(LineOf(rendered[1].tree[cm[1]], cm[2]).rows) = invoked
            /\ InputsOf(FailureEntriesOf(rendered[1].failures, cm[1], cm[2]))
                 = SelectSeq(invoked, LAMBDA x : x \in failed)

C23_Witness ==
  /\ pc = "done"
  /\ rendered # <<>>
  /\ Len(testData("A", "m1")) = 2
  /\ Len(Failing(results["A"]["m1"])) = 2
  /\ Len(LineOf(rendered[1].tree["A"], "m1").rows) = 2

\* C24: at each level of the tree the last sibling is drawn with the corner
\* and every other sibling with the tee; a method with row lines that is not
\* the last method of its class is drawn with the tee.
C24_LastSiblingCorner ==
  (pc = "done" /\ rendered # <<>>) =>
    \A c \in DOMAIN rendered[1].tree :
      LET lines == rendered[1].tree[c] IN
      \A k \in 1..Len(lines) :
        /\ lines[k].connector = IF k = Len(lines) THEN Corner ELSE Tee
        /\ \A j \in 1..Len(lines[k].rows) :
             lines[k].rows[j].connector
               = IF j = Len(lines[k].rows) THEN Corner ELSE Tee

C24_Witness ==
  /\ pc = "done"
  /\ rendered # <<>>
  /\ Len(rendered[1].tree["A"]) = 2
  /\ rendered[1].tree["A"][1].name = "m1"
  /\ Len(rendered[1].tree["A"][1].rows) = 2
  /\ rendered[1].tree["A"][1].connector = Tee

\* The failing cases held in the results of the run, as [cls, name, inputs].
FailedCases ==
  UNION {{[cls |-> cm[1], name |-> cm[2], inputs |-> r.inputs] :
            r \in Range(Failing(results[cm[1]][cm[2]]))} :
           cm \in (DOMAIN results) \X Methods}

\* C25: the failure section lists every failing case of the run once and no
\* passing case, numbered from 1 to the number of failures; an entry has an
\* 'Inputs:' line exactly when its case came from a row of a Theory.
C25_FailureSection ==
  (pc = "done" /\ rendered # <<>>) =>
    LET failures == rendered[1].failures
        listed == [i \in 1..Len(failures) |->
                     [cls |-> failures[i].entry.cls, name |-> failures[i].entry.name,
                      inputs |-> failures[i].entry.inputs]]
    IN /\ \A i \in 1..Len(failures) : failures[i].index = i
       /\ Range(listed) = FailedCases
       /\ \A i, j \in 1..Len(failures) : i # j => listed[i] # listed[j]
       /\ Len(failures) = AllFailing(results)
       /\ \A i \in 1..Len(failures) :
            failures[i].entry.inputsLine
              <=> <<failures[i].entry.cls, failures[i].entry.name>> \in TheoriesRun

C25_Witness ==
  /\ pc = "done"
  /\ rendered # <<>>
  /\ Len(rendered[1].failures) = 2
  /\ \E i, j \in 1..2 :
       /\ rendered[1].failures[i].entry.inputsLine
       /\ ~rendered[1].failures[j].entry.inputsLine
  /\ AllPassing(results) = 1

\* C27: a report has the 'Failures:' header exactly when a case failed in its
\* run; a run in which every case passed does not print it, whatever failed
\* in an earlier run.
C27_HeaderIffFailedThisRun ==
  \A i \in 1..Len(reports) :
    reports[i].failuresHeader <=> AllFailing(reports[i].tree) > 0

\* C28: the row lines of a method begin with the bar exactly when the method
\* is not the last method line of its class, and with a blank when it is.
C28_BarWhenFollowed ==
  (pc = "done" /\ rendered # <<>>) =>
    \A c \in DOMAIN rendered[1].tree :
      LET lines == rendered[1].tree[c] IN
      \A k \in 1..Len(lines) : \A j \in 1..Len(lines[k].rows) :
        lines[k].rows[j].prefix = IF k = Len(lines) THEN Blank ELSE Bar

\* C26: formatTime gives seconds for a duration of at least 1000 ms,
\* milliseconds from 1 ms up to 1000 ms, and microseconds for every duration
\* below 1 ms, also below one microsecond; the figure is the duration in that
\* unit, rounded to the nearest integer.
C26_UnitByMagnitude ==
  outcome.kind = "formatted" =>
    outcome.text =
      IF subject.ms >= Second THEN [figure |-> round(subject.ms, Second), unit |-> "s"]
      ELSE IF subject.ms >= Milli THEN [figure |-> round(subject.ms, Milli), unit |-> "ms"]
      ELSE [figure |-> round(subject.ms, Micro), unit |-> "us"]

\* C29: Assert.inRange returns exactly when minimum <= number <= maximum and
\* throws otherwise, and its two forms, inRange(number, minimum, maximum) and
\* inRange(number, range), agree.
C29_InRangeBothForms ==
  (subject.op = "inRange" /\ outcome # NoOutcome) =>
    (outcome.kind = "returned"
       <=> (subject.minimum <= subject.number /\ subject.number <= subject.maximum))

\* s holds the lines of part one after the other.
Contains(s, part) ==
  \E i \in 0..(Len(s) - Len(part)) : SubSeq(s, i + 1, i + Len(part)) = part

\* C30: appendFailedMessage(message, runner) raises nothing when runner
\* returns; when runner fails an assertion the failure is raised again and the
\* text recorded for it holds message followed by the original message.
C30_MessagePrepended ==
  (subject.op = "appendFailedMessage" /\ outcome # NoOutcome) =>
    /\ subject.runner.does = "returns" <=> outcome.kind = "returned"
    /\ subject.runner.does = "fails" =>
         /\ outcome.kind = "thrown"
         /\ Contains(outcome.recorded, subject.message \o subject.runner.message)
====
